---- MODULE Spec2Model ----
(***************************************************************************)
(* Built-in layouts of penrose (src/builtin/layout/mod.rs): MainAndStack,  *)
(* Monocle and Grid, their placement functions and their message handlers. *)
(*                                                                         *)
(* Number representations                                                  *)
(*  - an f32 is the integer numerator n of the value n / 2^27.  Every f32  *)
(*    used here (0.6, 0.1, 0.95, the multiples of 1/8) is such a value,    *)
(*    sums and differences of such values are again multiples of 2^-27,    *)
(*    and RoundF32 rounds them to 24 significant bits, ties to even, as    *)
(*    the hardware does.  Products with an integer extent are formed       *)
(*    exactly in two 14-bit halves and rounded the same way.               *)
(*  - u32 max_main is a pair of 16-bit limbs [hi, lo] (value hi*2^16+lo),  *)
(*    so that the full 32-bit width is kept.                               *)
(*  - i32 deltas are plain integers in [-2^31, 2^31 - 1].                  *)
(* NaN and the infinities are not among the f32 inputs.  Where the outcome *)
(* of integer overflow depends on the build (a panic with overflow checks, *)
(* wrapping without), both outcomes are possible steps.                    *)
(***************************************************************************)
EXTENDS Integers, Sequences, FiniteSets, TLC

VARIABLES l, hist, out, status

vars == <<l, hist, out, status>>

-----------------------------------------------------------------------------
(* Bounds of the model *)

\* constructor ratios range over the eighths in [-RatioSlack/8, 1 + RatioSlack/8];
\* once a ratio has drifted outside this window no further message is followed
RatioSlack == 1
\* constructor ratio_step ranges over the eighths in [-MaxStep/8, MaxStep/8]
MaxStep == 1
\* constructor max_main ranges over 0..MaxMain and u32::MAX
MaxMain == 3
\* stacks hold 1..MaxClients clients
MaxClients == 5

-----------------------------------------------------------------------------
(* u32 as two 16-bit limbs, i32 as Int *)

Limb == 2^16

U32(n) == [hi |-> n \div Limb, lo |-> n % Limb]

U32MAX == [hi |-> Limb - 1, lo |-> Limb - 1]

I32MIN == -2147483647 - 1

U32Lt(a, b) == a.hi < b.hi \/ (a.hi = b.hi /\ a.lo < b.lo)

\* a + b in unbounded arithmetic: hi may reach 2^16 and more (overflow of u32)
U32WideAdd(a, b) ==
    LET lo == a.lo + b.lo
    IN  [hi |-> a.hi + b.hi + (lo \div Limb), lo |-> lo % Limb]

U32Wrap(w) == [hi |-> w.hi % Limb, lo |-> w.lo]

\* u32::saturating_sub
U32SaturatingSub(a, b) ==
    IF U32Lt(a, b) THEN U32(0)
    ELSE LET borrow == IF a.lo < b.lo THEN 1 ELSE 0
         IN  [hi |-> a.hi - b.hi - borrow, lo |-> a.lo + borrow * Limb - b.lo]

\* (n as u32) for a usize n < 2^16 compared with a u32: n <= m
NatLeqU32(n, m) == m.hi > 0 \/ n <= m.lo

-----------------------------------------------------------------------------
(* f32 *)

\* an f32 x is the numerator of x / Den
Den == 2^27

F32_1_0 == Den

Eighth == 2^24

\* the f32 literals 0.6 and 0.1 of MainAndStack::default, and 0.95
F32_0_6 == 80530640

F32_0_1 == 13421773

F32_0_95 == 15938355 * 8

RECURSIVE BitLen(_)
BitLen(n) == IF n = 0 THEN 0 ELSE 1 + BitLen(n \div 2)

Abs(n) == IF n < 0 THEN 0 - n ELSE n

\* q with its low s bits dropped, rounded to nearest, ties to even
RoundShift(a, s) ==
    LET q == a \div 2^s
        rem == a % 2^s
        half == 2^(s - 1)
    IN  IF rem > half \/ (rem = half /\ q % 2 = 1) THEN q + 1 ELSE q

\* the f32 nearest to n / Den (24 significant bits, ties to even)
RoundF32(n) ==
    LET a == Abs(n)
        s == BitLen(a) - 24
    IN  IF s <= 0 THEN n
        ELSE (IF n < 0 THEN -1 ELSE 1) * RoundShift(a, s) * 2^s

F32Add(a, b) == RoundF32(a + b)

F32Sub(a, b) == RoundF32(a - b)

\* (d as f32) * x for an extent d < 2^10 and an f32 0 <= x < 2, as [q, s]: the
\* f32 product is q * 2^s / Den.  The exact product is hi * 2^14 + lo with
\* hi < 2^24, so at most the 14 bits of lo are rounded away.
F32MulExtent(d, x) ==
    LET b == d * (x % 2^14)
        hi == d * (x \div 2^14) + (b \div 2^14)
        lo == b % 2^14
        s == BitLen(hi) + 14 - 24
        q == hi * 2^(14 - s) + (lo \div 2^s)
        rem == lo % 2^s
    IN  IF s <= 0 THEN [q |-> hi * 2^14 + lo, s |-> 0]
        ELSE IF rem > 2^(s - 1) \/ (rem = 2^(s - 1) /\ q % 2 = 1)
             THEN [q |-> q + 1, s |-> s]
             ELSE [q |-> q, s |-> s]

\* ((d as f32) * x) as u32: truncation toward zero, a negative product
\* saturates to 0 (the products formed here stay far below u32::MAX)
F32MulAsU32(d, x) ==
    IF x < 0 THEN 0
    ELSE LET p == F32MulExtent(d, x) IN p.q \div 2^(27 - p.s)

-----------------------------------------------------------------------------
(* Geometry primitives: Rect and its splitting operations *)

Rect(x, y, w, h) == [x |-> x, y |-> y, w |-> w, h |-> h]

as_rows(r, n) ==
    IF n = 0 THEN << >>
    ELSE [i \in 1..n |-> Rect(r.x, r.y + (i - 1) * (r.h \div n), r.w, r.h \div n)]

as_columns(r, n) ==
    IF n = 0 THEN << >>
    ELSE [i \in 1..n |-> Rect(r.x + (i - 1) * (r.w \div n), r.y, r.w \div n, r.h)]

\* Result of a split at an explicit offset: fails outside [0, extent]
split_at_width(r, new_width) ==
    IF new_width > r.w THEN [ok |-> FALSE]
    ELSE [ok |-> TRUE,
          near |-> Rect(r.x, r.y, new_width, r.h),
          far |-> Rect(r.x + new_width, r.y, r.w - new_width, r.h)]

split_at_height(r, new_height) ==
    IF new_height > r.h THEN [ok |-> FALSE]
    ELSE [ok |-> TRUE,
          near |-> Rect(r.x, r.y, r.w, new_height),
          far |-> Rect(r.x, r.y + new_height, r.w, r.h - new_height)]

-----------------------------------------------------------------------------
(* Ordered client stack: a sequence of distinct Xids and one focused Xid,   *)
(* which is one of the sequence when the sequence is not empty              *)

\* s.len()
StackLen(s) == Len(s.clients)

\* s.focus
StackFocus(s) == s.focus

\* iterator.zip(s): pairs the i-th rectangle with the i-th client, as long as
\* both last; yields (client, rect)
ZipWithStack(rects, s) ==
    LET k == IF Len(rects) < StackLen(s) THEN Len(rects) ELSE StackLen(s)
    IN  [i \in 1..k |-> <<s.clients[i], rects[i]>>]

-----------------------------------------------------------------------------
(* MainAndStack *)

StackPosition == {"Side", "Bottom"}

MainAndStack(pos, max_main, ratio, ratio_step, mirrored) ==
    [pos |-> pos, max_main |-> max_main, ratio |-> ratio,
     ratio_step |-> ratio_step, mirrored |-> mirrored]

side_unboxed(max_main, ratio, ratio_step, mirrored) ==
    MainAndStack("Side", max_main, ratio, ratio_step, mirrored)

bottom_unboxed(max_main, ratio, ratio_step, mirrored) ==
    MainAndStack("Bottom", max_main, ratio, ratio_step, mirrored)

side(max_main, ratio, ratio_step) == side_unboxed(max_main, ratio, ratio_step, FALSE)

side_mirrored(max_main, ratio, ratio_step) == side_unboxed(max_main, ratio, ratio_step, TRUE)

bottom(max_main, ratio, ratio_step) == bottom_unboxed(max_main, ratio, ratio_step, FALSE)

top(max_main, ratio, ratio_step) == bottom_unboxed(max_main, ratio, ratio_step, TRUE)

\* impl Default for MainAndStack
Default == MainAndStack("Side", U32(1), F32_0_6, F32_0_1, FALSE)

\* split with the mirrored flag ignored
split_unmirrored(self, d) == F32MulAsU32(d, self.ratio)

\* MainAndStack::split: the offset of the split point along an extent d
split(self, d) ==
    LET ratio == IF self.mirrored THEN F32Sub(F32_1_0, self.ratio) ELSE self.ratio
    IN  F32MulAsU32(d, ratio)

all_windows_in_single_stack(self, n) ==
    \/ NatLeqU32(n, self.max_main)
    \/ self.max_main = U32(0)
    \/ self.ratio = F32_1_0
    \/ self.ratio = 0

NoRect == Rect(0, 0, 0, 0)

\* The outcome of a placement: ok = FALSE is the panic of
\* expect("split point to be valid"); the other fields besides positions are
\* the locals of the call (two: the two-region branch was taken).
Placed(positions, two, offset, main, stack, n_rows, n_cols) ==
    [ok |-> TRUE, positions |-> positions, two |-> two, offset |-> offset,
     main |-> main, stack |-> stack, n_rows |-> n_rows, n_cols |-> n_cols]

SplitPanic(offset) ==
    [ok |-> FALSE, positions |-> << >>, two |-> TRUE, offset |-> offset,
     main |-> NoRect, stack |-> NoRect, n_rows |-> 0, n_cols |-> 0]

layout_side(self, s, r) ==
    LET n == StackLen(s)
    IN  IF all_windows_in_single_stack(self, n)
        THEN Placed(ZipWithStack(as_rows(r, n), s), FALSE, 0, r, r, 0, 0)
        ELSE LET offset == split(self, r.w)
                 parts == split_at_width(r, offset)
                 main == IF self.mirrored THEN parts.far ELSE parts.near
                 stack == IF self.mirrored THEN parts.near ELSE parts.far
             IN  IF ~parts.ok THEN SplitPanic(offset)
                 ELSE Placed(ZipWithStack(as_rows(main, self.max_main.lo)
                                            \o as_rows(stack, n - self.max_main.lo), s),
                             TRUE, offset, main, stack, 0, 0)

\* layout_bottom with the secondary region cut into rows, as layout_side does
layout_bottom_rows(self, s, r) ==
    LET n == StackLen(s)
    IN  IF all_windows_in_single_stack(self, n)
        THEN Placed(ZipWithStack(as_columns(r, n), s), FALSE, 0, r, r, 0, 0)
        ELSE LET offset == split(self, r.h)
                 parts == split_at_height(r, offset)
                 main == IF self.mirrored THEN parts.far ELSE parts.near
                 stack == IF self.mirrored THEN parts.near ELSE parts.far
             IN  IF ~parts.ok THEN SplitPanic(offset)
                 ELSE Placed(ZipWithStack(as_columns(main, self.max_main.lo)
                                            \o as_rows(stack, n - self.max_main.lo), s),
                             TRUE, offset, main, stack, 0, 0)

layout_bottom(self, s, r) ==
    LET n == StackLen(s)
    IN  IF all_windows_in_single_stack(self, n)
        THEN Placed(ZipWithStack(as_columns(r, n), s), FALSE, 0, r, r, 0, 0)
        ELSE LET offset == split(self, r.h)
                 parts == split_at_height(r, offset)
                 main == IF self.mirrored THEN parts.far ELSE parts.near
                 stack == IF self.mirrored THEN parts.near ELSE parts.far
             IN  IF ~parts.ok THEN SplitPanic(offset)
                 ELSE Placed(ZipWithStack(as_columns(main, self.max_main.lo)
                                            \o as_columns(stack, n - self.max_main.lo), s),
                             TRUE, offset, main, stack, 0, 0)

\* <MainAndStack as Layout>::layout
MainAndStackLayout(self, s, r) ==
    IF self.pos = "Side" THEN layout_side(self, s, r) ELSE layout_bottom(self, s, r)

-----------------------------------------------------------------------------
(* Messages *)

ExpandMain == [kind |-> "ExpandMain", n |-> 0]

ShrinkMain == [kind |-> "ShrinkMain", n |-> 0]

IncMain(n) == [kind |-> "IncMain", n |-> n]

Mirror == [kind |-> "Mirror", n |-> 0]

Rotate == [kind |-> "Rotate", n |-> 0]

\* message kinds of other code, unknown to the built-in layouts
ForeignKinds == {"UnwrapTransformer", "Foreign"}

Foreign(k) == [kind |-> k, n |-> 0]

\* The outcome of handle_message: the layout afterwards, the returned
\* replacement, and whether the call panicked.
Handled(self) == [self |-> self, ret |-> "None", panicked |-> FALSE]

Panicked(self) == [self |-> self, ret |-> "None", panicked |-> TRUE]

\* IncMain(n) for n < 0: self.max_main.saturating_sub((-n) as u32).  -n
\* overflows for i32::MIN: a panic with overflow checks, 2^31 without.
IncMainNegative(self, n) ==
    IF n = I32MIN
    THEN {Panicked(self),
          Handled([self EXCEPT !.max_main =
                      U32SaturatingSub(@, [hi |-> Limb \div 2, lo |-> 0])])}
    ELSE {Handled([self EXCEPT !.max_main = U32SaturatingSub(@, U32(0 - n))])}

\* IncMain(n) for n >= 0: self.max_main += n as u32.  An overflowing sum is
\* a panic with overflow checks and wraps without.
IncMainPositive(self, n) ==
    LET sum == U32WideAdd(self.max_main, U32(n))
    IN  IF sum.hi >= Limb
        THEN {Panicked(self), Handled([self EXCEPT !.max_main = U32Wrap(sum)])}
        ELSE {Handled([self EXCEPT !.max_main = sum])}

\* handle_message with Rotate as the final catch-all arm
handle_message_rotate_else(self, m) ==
    IF m.kind = "ExpandMain" THEN
        LET ratio == F32Add(self.ratio, self.ratio_step)
        IN  {Handled([self EXCEPT !.ratio = IF ratio > F32_1_0 THEN F32_1_0 ELSE ratio])}
    ELSE IF m.kind = "ShrinkMain" THEN
        LET ratio == F32Sub(self.ratio, self.ratio_step)
        IN  {Handled([self EXCEPT !.ratio = IF ratio < 0 THEN 0 ELSE ratio])}
    ELSE IF m.kind = "IncMain" THEN
        IF m.n < 0 THEN IncMainNegative(self, m.n) ELSE IncMainPositive(self, m.n)
    ELSE IF m.kind = "Mirror" THEN
        {Handled([self EXCEPT !.mirrored = ~self.mirrored])}
    ELSE {Handled([self EXCEPT !.pos = IF self.pos = "Side" THEN "Bottom" ELSE "Side"])}

\* handle_message with both arms of the Rotate match giving Bottom
handle_message_rotate_stuck(self, m) ==
    IF m.kind = "ExpandMain" THEN
        LET ratio == F32Add(self.ratio, self.ratio_step)
        IN  {Handled([self EXCEPT !.ratio = IF ratio > F32_1_0 THEN F32_1_0 ELSE ratio])}
    ELSE IF m.kind = "ShrinkMain" THEN
        LET ratio == F32Sub(self.ratio, self.ratio_step)
        IN  {Handled([self EXCEPT !.ratio = IF ratio < 0 THEN 0 ELSE ratio])}
    ELSE IF m.kind = "IncMain" THEN
        IF m.n < 0 THEN IncMainNegative(self, m.n) ELSE IncMainPositive(self, m.n)
    ELSE IF m.kind = "Mirror" THEN
        {Handled([self EXCEPT !.mirrored = ~self.mirrored])}
    ELSE IF m.kind = "Rotate" THEN
        {Handled([self EXCEPT !.pos = "Bottom"])}
    ELSE {Handled(self)}

\* <MainAndStack as Layout>::handle_message: the set of possible outcomes
handle_message(self, m) ==
    IF m.kind = "ExpandMain" THEN
        LET ratio == F32Add(self.ratio, self.ratio_step)
        IN  {Handled([self EXCEPT !.ratio = IF ratio > F32_1_0 THEN F32_1_0 ELSE ratio])}
    ELSE IF m.kind = "ShrinkMain" THEN
        LET ratio == F32Sub(self.ratio, self.ratio_step)
        IN  {Handled([self EXCEPT !.ratio = IF ratio < 0 THEN 0 ELSE ratio])}
    ELSE IF m.kind = "IncMain" THEN
        IF m.n < 0 THEN IncMainNegative(self, m.n) ELSE IncMainPositive(self, m.n)
    ELSE IF m.kind = "Mirror" THEN
        {Handled([self EXCEPT !.mirrored = ~self.mirrored])}
    ELSE IF m.kind = "Rotate" THEN
        {Handled([self EXCEPT !.pos = IF self.pos = "Side" THEN "Bottom" ELSE "Side"])}
    ELSE {Handled(self)}

-----------------------------------------------------------------------------
(* Monocle *)

\* <Monocle as Layout>::layout
MonocleLayout(s, r) == Placed(<< <<StackFocus(s), r>> >>, FALSE, 0, r, r, 0, 0)

\* <Monocle as Layout>::handle_message
MonocleHandleMessage(m) == "None"

-----------------------------------------------------------------------------
(* Grid *)

\* (1..).find(|&i| (i * i) >= n), searching upward from i
RECURSIVE FindCols(_, _)
FindCols(i, n) == IF i * i >= n THEN i ELSE FindCols(i + 1, n)

\* the search for the column count with > for >=
RECURSIVE FindColsStrict(_, _)
FindColsStrict(i, n) == IF i * i > n THEN i ELSE FindColsStrict(i + 1, n)

GridColsStrict(n) == FindColsStrict(1, n)

GridCols(n) == FindCols(1, n)

\* the row count with > for >= in the test for the spare row
GridRowsStrict(n) ==
    LET n_cols == GridCols(n)
    IN  IF n_cols * (n_cols - 1) > n THEN n_cols - 1 ELSE n_cols

GridRows(n) ==
    LET n_cols == GridCols(n)
    IN  IF n_cols * (n_cols - 1) >= n THEN n_cols - 1 ELSE n_cols

\* rows.into_iter().flat_map(|row| row.as_columns(n_cols))
RECURSIVE FlatMapColumns(_, _)
FlatMapColumns(rows, n_cols) ==
    IF rows = << >> THEN << >>
    ELSE as_columns(Head(rows), n_cols) \o FlatMapColumns(Tail(rows), n_cols)

\* s.iter().zip(rects)
ZipStackWith(s, rects) ==
    LET k == IF Len(rects) < StackLen(s) THEN Len(rects) ELSE StackLen(s)
    IN  [i \in 1..k |-> <<s.clients[i], rects[i]>>]

\* <Grid as Layout>::layout
GridLayout(s, r) ==
    LET n == StackLen(s)
        n_cols == GridCols(n)
        n_rows == GridRows(n)
        rects == FlatMapColumns(as_rows(r, n_rows), n_cols)
    IN  Placed(ZipStackWith(s, rects), FALSE, 0, r, r, n_rows, n_cols)

\* <Grid as Layout>::handle_message
GridHandleMessage(m) == "None"

-----------------------------------------------------------------------------
(* Placement by one of the built-in layouts *)

Layouts == {"MainAndStack", "Monocle", "Grid"}

\* Layout::layout of the layout of the given kind; self is read by the
\* MainAndStack only
layout(kind, self, s, r) ==
    IF kind = "MainAndStack" THEN MainAndStackLayout(self, s, r)
    ELSE IF kind = "Monocle" THEN MonocleLayout(s, r)
    ELSE GridLayout(s, r)

-----------------------------------------------------------------------------
(* Inputs *)

\* the i-th client of a stack: distinct ids, not in ascending order
Xid(i) == 100 + ((i * MaxClients) % (2 * MaxClients + 1))

\* the stack of no clients; its focus is an Xid that is not of the sequence
EmptyStack == [clients |-> << >>, focus |-> Xid(1)]

\* stacks of 0..MaxClients clients; with clients, the first or the last
\* client is focused
Stacks ==
    {[clients |-> [i \in 1..n |-> Xid(i)], focus |-> Xid(f)] :
        <<n, f>> \in {p \in (1..MaxClients) \X (1..MaxClients) : p[2] \in {1, p[1]}}}
    \cup {EmptyStack}

Rects == {Rect(0, 0, 1000, 800), Rect(3, 5, 10, 7)}

\* constructor arguments
MaxMainArgs == {U32(k) : k \in 0..MaxMain} \cup {U32MAX}

RatioArgs == {k * Eighth : k \in (0 - RatioSlack)..(8 + RatioSlack)}

StepArgs == {k * Eighth : k \in (0 - MaxStep)..MaxStep}

RatioStepArgs == (RatioArgs \X StepArgs) \cup {<<F32_0_95, F32_0_1>>}

Deltas == {I32MIN, -5, -1, 1, 2}

Messages ==
    {ExpandMain, ShrinkMain, Mirror, Rotate}
        \cup {IncMain(n) : n \in Deltas} \cup {Foreign(k) : k \in ForeignKinds}

\* the layouts the public constructors can return
Constructed ==
    {Default}
    \cup {side(mm, a[1], a[2]) : mm \in MaxMainArgs, a \in RatioStepArgs}
    \cup {side_mirrored(mm, a[1], a[2]) : mm \in MaxMainArgs, a \in RatioStepArgs}
    \cup {bottom(mm, a[1], a[2]) : mm \in MaxMainArgs, a \in RatioStepArgs}
    \cup {top(mm, a[1], a[2]) : mm \in MaxMainArgs, a \in RatioStepArgs}

\* the layouts whose messages are followed: ratios in the window of the
\* constructor ratios, max_main small or u32::MAX.  A message takes such a
\* layout wherever the code takes it, with every outcome the builds allow; a
\* layout outside the window is still placed, but no message to it is followed.
Followed(self) ==
    /\ self.ratio >= (0 - RatioSlack) * Eighth
    /\ self.ratio <= (8 + RatioSlack) * Eighth
    /\ self.max_main \in MaxMainArgs

-----------------------------------------------------------------------------
(* State *)
(*   l       the MainAndStack                                              *)
(*   hist    the last message handled: its receiver, the message, the      *)
(*           MainAndStack before it, and what the call returned            *)
(*   out     the last placement: the layout asked, its arguments, its      *)
(*           result                                                        *)
(*   status  "ok", or "panic" once a call has panicked                     *)
(*                                                                         *)
(* A placement leaves the layout as it is (layout takes no field of self   *)
(* but reads), so whatever follows a placement also follows the state      *)
(* before it: a run is followed up to its first placement, which is        *)
(* recorded in out.  hist is the window on the last message only.          *)

NoHist(self) == [target |-> "none", msg |-> Foreign("none"), pre |-> self, ret |-> "None"]

NoOut == [layout |-> "none", s |-> EmptyStack, r |-> NoRect,
          res |-> Placed(<< >>, FALSE, 0, NoRect, NoRect, 0, 0)]

Init ==
    /\ l \in Constructed
    /\ hist = NoHist(l)
    /\ out = NoOut
    /\ status = "ok"

\* l.handle_message(m) on the MainAndStack
Handle(m) ==
    /\ status = "ok" /\ out = NoOut
    /\ Followed(l)
    /\ \E o \in handle_message(l, m) :
          /\ l' = o.self
          /\ hist' = [target |-> "MainAndStack", msg |-> m, pre |-> l, ret |-> o.ret]
          /\ status' = IF o.panicked THEN "panic" ELSE "ok"
    /\ out' = NoOut

HandleExpandMain == Handle(ExpandMain)

HandleShrinkMain == Handle(ShrinkMain)

HandleIncMain == \E n \in Deltas : Handle(IncMain(n))

HandleMirror == Handle(Mirror)

HandleRotate == Handle(Rotate)

HandleForeign == \E k \in ForeignKinds : Handle(Foreign(k))

\* Monocle.handle_message(m)
HandleMonocle ==
    /\ status = "ok" /\ out = NoOut
    /\ \E m \in Messages :
          hist' = [target |-> "Monocle", msg |-> m, pre |-> l, ret |-> MonocleHandleMessage(m)]
    /\ out' = NoOut
    /\ UNCHANGED <<l, status>>

\* Grid.handle_message(m)
HandleGrid ==
    /\ status = "ok" /\ out = NoOut
    /\ \E m \in Messages :
          hist' = [target |-> "Grid", msg |-> m, pre |-> l, ret |-> GridHandleMessage(m)]
    /\ out' = NoOut
    /\ UNCHANGED <<l, status>>

\* placement of a stack in a rectangle by one of the layouts
Place(kind) ==
    /\ status = "ok" /\ out = NoOut
    /\ \E s \in Stacks, r \in Rects :
          LET res == layout(kind, l, s, r)
          IN  /\ out' = [layout |-> kind, s |-> s, r |-> r, res |-> res]
              /\ status' = IF res.ok THEN "ok" ELSE "panic"
    /\ hist' = NoHist(l)
    /\ UNCHANGED l

PlaceMainAndStack == Place("MainAndStack")

PlaceMonocle == Place("Monocle")

PlaceGrid == Place("Grid")

Next ==
    \/ HandleExpandMain
    \/ HandleShrinkMain
    \/ HandleIncMain
    \/ HandleMirror
    \/ HandleRotate
    \/ HandleForeign
    \/ HandleMonocle
    \/ HandleGrid
    \/ PlaceMainAndStack
    \/ PlaceMonocle
    \/ PlaceGrid

Spec == Init /\ [][Next]_vars

-----------------------------------------------------------------------------
(* Properties *)

\* the last step was a placement of a non-empty stack by the MainAndStack
PlacedByMainAndStack == out.layout = "MainAndStack" /\ StackLen(out.s) >= 1

PlacedByGrid == out.layout = "Grid" /\ StackLen(out.s) >= 1

\* the last step was handle_message(m) on the MainAndStack with a message of kind k
HandledKind(k) == hist.target = "MainAndStack" /\ hist.msg.kind = k

RatioInUnit(self) == self.ratio >= 0 /\ self.ratio <= F32_1_0

\* n > max_main > 0 and ratio neither 0 nor 1
TwoRegionCase(self, n) ==
    /\ self.max_main.hi = 0 /\ self.max_main.lo > 0 /\ self.max_main.lo < n
    /\ self.ratio # 0 /\ self.ratio # F32_1_0

\* the cells of a region: rows for the side axis, columns for the bottom axis
Cells(pos, region, k) == IF pos = "Side" THEN as_rows(region, k) ELSE as_columns(region, k)

\* the extent a MainAndStack splits: the width for the side axis, else the height
PrimaryExtent(pos, r) == IF pos = "Side" THEN r.w ELSE r.h

EffectiveRatio(self) == IF self.mirrored THEN F32Sub(F32_1_0, self.ratio) ELSE self.ratio

\* C1: a MainAndStack with its ratio in [0, 1] places a stack of n >= 1
\* clients without failing, returns exactly n pairs whose clients are the
\* stack's clients in stack order, and in the two-region case gives the first
\* max_main clients the max_main cells of the main region and the other
\* n - max_main clients the cells of the secondary region.
C1_EveryClientPlacedInOrder ==
    (PlacedByMainAndStack /\ RatioInUnit(l)) =>
        LET n == StackLen(out.s)
            res == out.res
            mm == l.max_main.lo
        IN  /\ res.ok
            /\ Len(res.positions) = n
            /\ \A i \in 1..n : res.positions[i][1] = out.s.clients[i]
            /\ TwoRegionCase(l, n) =>
                  /\ res.two
                  /\ \A i \in 1..mm :
                        res.positions[i][2] = Cells(l.pos, res.main, mm)[i]
                  /\ \A i \in (mm + 1)..n :
                        res.positions[i][2] = Cells(l.pos, res.stack, n - mm)[i - mm]

C1_Witness ==
    /\ PlacedByMainAndStack
    /\ l.pos = "Bottom" /\ l.mirrored /\ l.max_main = U32(2) /\ l.ratio = 3 * Eighth
    /\ StackLen(out.s) = 5 /\ out.res.ok /\ out.res.two
    /\ Len(out.res.positions) = 5

\* C2: a placement by any built-in layout over a stack of n >= 0 clients
\* that returns, returns at most n assignments, all to clients of the stack
\* and no two to the same client; with an empty stack it returns the empty
\* list and does not fail.
C2_AtMostOneRectPerClient ==
    (out.layout # "none") =>
        LET n == StackLen(out.s)
            ps == out.res.positions
        IN  /\ Len(ps) <= n
            /\ \A i \in 1..Len(ps) : \E j \in 1..n : ps[i][1] = out.s.clients[j]
            /\ \A i, j \in 1..Len(ps) : ps[i][1] = ps[j][1] => i = j
            /\ n = 0 => out.res.ok /\ ps = << >> /\ status = "ok"

\* C3: no placement by a MainAndStack that came from a public constructor and
\* any sequence of messages asks for a split offset outside [0, extent]: the
\* expect("split point to be valid") never fires.
C3_SplitPointAlwaysValid ==
    (PlacedByMainAndStack /\ out.res.two) =>
        /\ out.res.offset <= PrimaryExtent(l.pos, out.r)
        /\ out.res.ok

\* max(0, max_main + delta) in unbounded arithmetic (hi is 2^16 or more when
\* the sum does not fit a u32)
ExactIncMain(m, delta) ==
    IF delta = I32MIN THEN U32SaturatingSub(m, [hi |-> Limb \div 2, lo |-> 0])
    ELSE IF delta < 0 THEN U32SaturatingSub(m, U32(0 - delta))
    ELSE U32WideAdd(m, U32(delta))

\* C4: IncMain(delta) never fails, leaves max_main at max(0, max_main + delta)
\* and changes no other field.
C4_IncMainAddsSaturatingAtZero ==
    HandledKind("IncMain") =>
        /\ status = "ok"
        /\ l = [hist.pre EXCEPT !.max_main = ExactIncMain(@, hist.msg.n)]

\* C5: after ExpandMain the ratio is min(1.0, ratio + ratio_step), after
\* ShrinkMain it is max(0.0, ratio - ratio_step), and in both cases it lies
\* in [0.0, 1.0] (stated here for the messages that find the ratio in
\* [0.0, 1.0], the least the claim covers).
C5_RatioClampedToUnit ==
    RatioInUnit(hist.pre) =>
    /\ HandledKind("ExpandMain") =>
          LET sum == F32Add(hist.pre.ratio, hist.pre.ratio_step)
          IN  /\ l.ratio = (IF sum > F32_1_0 THEN F32_1_0 ELSE sum)
              /\ RatioInUnit(l)
    /\ HandledKind("ShrinkMain") =>
          LET diff == F32Sub(hist.pre.ratio, hist.pre.ratio_step)
          IN  /\ l.ratio = (IF diff < 0 THEN 0 ELSE diff)
              /\ RatioInUnit(l)

KnownKinds == {"ExpandMain", "ShrinkMain", "IncMain", "Mirror", "Rotate"}

\* C6: a message of a kind other than ExpandMain, ShrinkMain, IncMain,
\* Mirror and Rotate leaves every field of the MainAndStack unchanged,
\* returns no replacement and does not fail; Monocle and Grid answer every
\* message so.
C6_UnknownMessageIgnored ==
    /\ (hist.target = "MainAndStack" /\ hist.msg.kind \notin KnownKinds) =>
          l = hist.pre /\ hist.ret = "None" /\ status = "ok"
    /\ hist.target \in {"Monocle", "Grid"} =>
          l = hist.pre /\ hist.ret = "None" /\ status = "ok"

C6_Witness ==
    /\ hist.target = "MainAndStack" /\ hist.msg = Foreign("UnwrapTransformer")
    /\ l.pos = "Side" /\ l.mirrored /\ l.ratio = F32_1_0 /\ l.max_main = U32(3)

\* C7: Rotate flips the axis and Mirror flips mirrored, each leaving every
\* other field unchanged, and handling the same message once more gives
\* back the layout as it was before the first.
C7_RotateAndMirrorAreInvolutions ==
    /\ HandledKind("Rotate") =>
          /\ l.pos # hist.pre.pos
          /\ l = [hist.pre EXCEPT !.pos = l.pos]
          /\ \A o \in handle_message(l, Rotate) : o.self = hist.pre /\ ~o.panicked
    /\ HandledKind("Mirror") =>
          /\ l.mirrored # hist.pre.mirrored
          /\ l = [hist.pre EXCEPT !.mirrored = l.mirrored]
          /\ \A o \in handle_message(l, Mirror) : o.self = hist.pre /\ ~o.panicked

C7_Witness ==
    /\ HandledKind("Rotate")
    /\ hist.pre.pos = "Bottom" /\ l.pos = "Side" /\ l.mirrored /\ l.max_main = U32(2)

\* C8: Grid over n >= 1 clients uses the least columns >= 1 with
\* columns^2 >= n, rows = columns - 1 if columns * (columns - 1) >= n and
\* rows = columns otherwise, and gives the i-th client (from 0) the cell in
\* row i div columns, column i mod columns of the rows bands of columns cells.
C8_GridCellsRowMajor ==
    PlacedByGrid =>
        LET n == StackLen(out.s)
            cols == CHOOSE c \in 1..n : c * c >= n /\ \A d \in 1..(c - 1) : d * d < n
            rows == IF cols * (cols - 1) >= n THEN cols - 1 ELSE cols
            bands == as_rows(out.r, rows)
        IN  /\ out.res.n_cols = cols /\ out.res.n_rows = rows
            /\ n = 1 => cols = 1 /\ rows = 1
            /\ n = 4 => cols = 2 /\ rows = 2
            /\ n = 5 => cols = 3 /\ rows = 2
            /\ Len(out.res.positions) = n
            /\ \A i \in 0..(n - 1) :
                  out.res.positions[i + 1] =
                      <<out.s.clients[i + 1],
                        as_columns(bands[(i \div cols) + 1], cols)[(i % cols) + 1]>>

C8_Witness ==
    /\ PlacedByGrid /\ StackLen(out.s) = 5 /\ out.r = Rect(3, 5, 10, 7)
    /\ out.res.positions[5] = <<Xid(5), Rect(6, 8, 3, 3)>>

\* the integer nearest to (d as f32) * x, halves away from zero
F32MulRounded(d, x) ==
    LET p == F32MulExtent(d, Abs(x))
        k == (p.q + 2^(26 - p.s)) \div 2^(27 - p.s)
    IN  IF x < 0 THEN 0 - k ELSE k

\* the two parts of r cut at offset along the axis, near part first
PartsAt(pos, r, offset) ==
    IF pos = "Side"
    THEN <<Rect(r.x, r.y, offset, r.h), Rect(r.x + offset, r.y, r.w - offset, r.h)>>
    ELSE <<Rect(r.x, r.y, r.w, offset), Rect(r.x, r.y + offset, r.w, r.h - offset)>>

\* what C9 says of the regions once the offset is known
RegionsAt(offset) ==
    LET parts == PartsAt(l.pos, out.r, offset)
    IN  /\ out.res.ok
        /\ out.res.main = (IF l.mirrored THEN parts[2] ELSE parts[1])
        /\ out.res.stack = (IF l.mirrored THEN parts[1] ELSE parts[2])
        /\ PrimaryExtent(l.pos, out.res.main) =
              (IF l.mirrored THEN PrimaryExtent(l.pos, out.r) - offset ELSE offset)

\* C9 as stated: in the two-region case the split offset is
\* round(primary_extent * effective_ratio), the rectangle is split there and,
\* when mirrored, the far part is the main region (stated here for ratios
\* in [0, 1], the least the claim covers).
C9_SplitIsRoundedProduct ==
    (PlacedByMainAndStack /\ out.res.two /\ RatioInUnit(l)) =>
        /\ out.res.offset = F32MulRounded(PrimaryExtent(l.pos, out.r), EffectiveRatio(l))
        /\ RegionsAt(out.res.offset)

\* C9 amended: in the two-region case the split offset is the f32 product
\* primary_extent * effective_ratio truncated toward zero (0 for a negative
\* product); when that offset is at most the extent the rectangle is split
\* there, the main region being the near part, or the far part of extent
\* primary_extent - split when mirrored; otherwise the placement fails.
C9_SplitIsTruncatedProduct ==
    (PlacedByMainAndStack /\ out.res.two) =>
        LET d == PrimaryExtent(l.pos, out.r)
            x == EffectiveRatio(l)
            p == F32MulExtent(d, x)
            k == out.res.offset
        IN  /\ x < 0 => k = 0
            /\ x >= 0 => k * 2^(27 - p.s) <= p.q /\ p.q < (k + 1) * 2^(27 - p.s)
            /\ k <= d => RegionsAt(k)
            /\ k > d => ~out.res.ok

C9_Witness ==
    /\ PlacedByMainAndStack /\ out.res.two /\ out.res.ok
    /\ l.pos = "Side" /\ l.mirrored /\ l.ratio = 5 * Eighth
    /\ out.r = Rect(3, 5, 10, 7)
    /\ out.res.offset = 3 /\ out.res.main = Rect(6, 5, 7, 7)

\* C10: the grid of Grid::layout is tight for n >= 1: rows * columns >= n and
\* every client gets a cell, (rows - 1) * columns < n so that no row is left
\* without a client, and fewer than columns cells stay unassigned.
C10_GridIsTight ==
    PlacedByGrid =>
        LET n == StackLen(out.s)
            rows == out.res.n_rows
            cols == out.res.n_cols
        IN  /\ rows * cols >= n
            /\ Len(out.res.positions) = n
            /\ (rows - 1) * cols < n
            /\ rows * cols - n < cols

C10_Witness ==
    /\ PlacedByGrid /\ StackLen(out.s) = 3
    /\ out.res.n_rows = 2 /\ out.res.n_cols = 2 /\ Len(out.res.positions) = 3

====
